---- MODULE Spec2Model ----
(***************************************************************************)
(* Model of the blog-post CRUD service: the Flask handlers of main.py and   *)
(* the BlogPost entity of db.py, running as concurrent request workers     *)
(* over one "blogposts" table.                                             *)
(*                                                                         *)
(* A handler that touches the database once is one action; update_item,    *)
(* which reads in one session and saves in a second one, is two actions,   *)
(* so that other requests can run between its read and its save.           *)
(***************************************************************************)
EXTENDS Integers, Sequences, FiniteSets, TLC

\* ------------------------------------------------------------- bounds

\* Number of distinct UUIDs uuid4 can hand out (rows that can be created).
MaxPosts == 2

\* Number of requests the service receives in one run.
MaxRequests == 3

\* ------------------------------------------------------------- values

\* Request worker threads (app.run serves each request on its own thread).
Workers == {"w1", "w2"}

\* Text values a JSON body can carry for "name" and "description".
Texts == {"A", "B"}

\* Python's None.
None == "<None>"

UUIDs == 1..MaxPosts

\* A path segment after /items/: a UUID-format string, a string of digits,
\* or any other word.
Segments == {<<"uuidstr", n>> : n \in UUIDs} \cup {<<"digits", 7>>, <<"word", 0>>}

\* JSON bodies: objects over the keys "name" and "description"; the keys may
\* be missing.
FullBodies == [{"name", "description"} -> Texts]

PartialBodies == {[name |-> "B"], [description |-> "A"]}

Bodies == FullBodies \cup PartialBodies

NoBody == [none |-> TRUE]

\* What the database does when it is asked something: it answers, it cannot
\* be reached, or it reports another error.
DbOutcomes == {"ok", "unreachable", "error"}

VARIABLES
    table,      \* blogposts: UUID -> [title, description, created_at]
    now,        \* datetime.now(), a counter
    req,        \* worker -> the request it is handling or has last answered
    nreq,       \* requests received so far
    posted,     \* history: UUID -> the payload its row was created from
    updated,    \* history: UUIDs some update_item has committed a save for
    ver         \* history: UUID -> number of committed saves of its row

vars == <<table, now, req, nreq, posted, updated, ver>>

\* ------------------------------------------------------------ routing

\* str(uuid), as to_dict renders the id.
str(id) == <<"uuidstr", id[2]>>

\* werkzeug's UUIDConverter: the segment must have the UUID format.
UUIDConverter(seg) == IF seg[1] = "uuidstr" THEN <<<<"UUID", seg[2]>>>> ELSE <<>>

\* werkzeug's IntegerConverter: the segment must be digits only.
IntegerConverter(seg) == IF seg[1] = "digits" THEN <<<<"int", seg[2]>>>> ELSE <<>>

\* The app's URL map, one entry per @app.route.
url_map ==
    { [rule |-> "/healthcheck", methods |-> {"GET"}, endpoint |-> "perform_healthcheck"],
      [rule |-> "/items", methods |-> {"GET"}, endpoint |-> "get_items"],
      [rule |-> "/items/<uuid:item_id>", methods |-> {"GET"}, endpoint |-> "get_item"],
      [rule |-> "/items", methods |-> {"POST"}, endpoint |-> "create_item"],
      [rule |-> "/items/<uuid:item_id>", methods |-> {"PUT"}, endpoint |-> "update_item"],
      [rule |-> "/items/<int:item_id>", methods |-> {"DELETE"}, endpoint |-> "delete_item"] }

\* The view arguments a rule extracts from a path: <<>> (no match), or a
\* one-element sequence holding the converted item_id (None when the rule has
\* no argument).
RuleMatch(rule, path) ==
    CASE rule = "/healthcheck" ->
            IF path = <<"healthcheck">> THEN <<<<"None", 0>>>> ELSE <<>>
      [] rule = "/items" ->
            IF path = <<"items">> THEN <<<<"None", 0>>>> ELSE <<>>
      [] rule = "/items/<uuid:item_id>" ->
            IF Len(path) = 2 /\ path[1] = "items" THEN UUIDConverter(path[2]) ELSE <<>>
      [] rule = "/items/<int:item_id>" ->
            IF Len(path) = 2 /\ path[1] = "items" THEN IntegerConverter(path[2]) ELSE <<>>

\* Routing: the endpoint whose rule matches the path and allows the method;
\* 405 when rules match the path but none allows the method; 404 when no rule
\* matches the path.
Dispatch(method, path) ==
    LET matching == {r \in url_map : RuleMatch(r.rule, path) # <<>>}
        allowed == {r \in matching : method \in r.methods}
    IN  IF allowed # {}
        THEN LET r == CHOOSE r \in allowed : TRUE
             IN  [endpoint |-> r.endpoint, item_id |-> RuleMatch(r.rule, path)[1], status |-> 0]
        ELSE [endpoint |-> "done", item_id |-> <<"None", 0>>,
              status |-> IF matching # {} THEN 405 ELSE 404]

\* The requests of the service's six endpoints.
Requests ==
    {[method |-> "GET", path |-> <<"healthcheck">>, body |-> NoBody],
     [method |-> "GET", path |-> <<"items">>, body |-> NoBody]}
    \cup {[method |-> "GET", path |-> <<"items", s>>, body |-> NoBody] : s \in Segments}
    \cup {[method |-> "DELETE", path |-> <<"items", s>>, body |-> NoBody] : s \in Segments}
    \cup {[method |-> "POST", path |-> <<"items">>, body |-> b] : b \in Bodies}
    \cup {[method |-> "PUT", path |-> <<"items", s>>, body |-> b] :
                s \in {<<"uuidstr", n>> : n \in UUIDs}, b \in Bodies}
    \cup {[method |-> "PUT", path |-> <<"items", s>>, body |-> [name |-> "A", description |-> "B"]] :
                s \in Segments}

\* A worker with no request.
Idle ==
    [pc |-> "idle", method |-> "", path |-> <<>>, body |-> NoBody,
     item_id |-> <<"None", 0>>, item |-> <<>>, status |-> 0, json |-> <<>>,
     sessions |-> <<>>, exc |-> None, rver |-> 0, cver |-> 0]

\* POST requests received and not yet answered.
CreatesInFlight == Cardinality({w \in Workers : req[w].pc = "create_item"})

Init ==
    /\ table = <<>>
    /\ now = 0
    /\ req = [w \in Workers |-> Idle]
    /\ nreq = 0
    /\ posted = <<>>
    /\ updated = {}
    /\ ver = [u \in UUIDs |-> 0]

\* A request arrives at a free worker and is routed.
Receive(w) ==
    /\ req[w].pc \in {"idle", "done"}
    /\ nreq < MaxRequests
    /\ \E r \in Requests :
        LET d == Dispatch(r.method, r.path) IN
        /\ d.endpoint = "create_item" =>
              Cardinality(DOMAIN table) + CreatesInFlight < MaxPosts
        /\ req' = [req EXCEPT ![w] =
                     [Idle EXCEPT !.pc = d.endpoint, !.method = r.method,
                                  !.path = r.path, !.body = r.body,
                                  !.item_id = d.item_id, !.status = d.status]]
    /\ nreq' = nreq + 1
    /\ UNCHANGED <<table, now, posted, updated, ver>>

\* -------------------------------------------------------- healthcheck

\* Base classes of each exception class (its method resolution order).
Mro(cls) ==
    CASE cls = "psycopg2.OperationalError" ->
            {"psycopg2.OperationalError", "psycopg2.DatabaseError", "psycopg2.Error", "Exception"}
      [] cls = "sqlalchemy.exc.OperationalError" ->
            {"sqlalchemy.exc.OperationalError", "sqlalchemy.exc.DatabaseError",
             "sqlalchemy.exc.DBAPIError", "sqlalchemy.exc.SQLAlchemyError", "Exception"}
      [] cls = "sqlalchemy.exc.ProgrammingError" ->
            {"sqlalchemy.exc.ProgrammingError", "sqlalchemy.exc.DatabaseError",
             "sqlalchemy.exc.DBAPIError", "sqlalchemy.exc.SQLAlchemyError", "Exception"}

\* The name OperationalError in main.py: imported from psycopg2.
OperationalError == "psycopg2.OperationalError"

\* What the SQLAlchemy engine raises: it wraps the driver's errors in its own
\* exception classes (the driver's exception is the cause, not the class).
EngineRaises(outcome) ==
    CASE outcome = "unreachable" -> "sqlalchemy.exc.OperationalError"
      [] outcome = "error" -> "sqlalchemy.exc.ProgrammingError"
      [] OTHER -> None

\* with engine.connect() as conn: conn.execute(text("SELECT 1"))
ConnectAndSelect(outcome) ==
    CASE outcome = "ok" -> <<"engine.connect", "execute", "conn.close">>
      [] outcome = "unreachable" -> <<"engine.connect!">>
      [] outcome = "error" -> <<"engine.connect", "execute!", "conn.close">>

\* The try/except of perform_healthcheck: the status for what was raised.
HealthcheckStatus(exc) ==
    IF exc = None THEN 200
    ELSE IF OperationalError \in Mro(exc) THEN 503
    ELSE 500

perform_healthcheck(w) ==
    /\ req[w].pc = "perform_healthcheck"
    /\ \E outcome \in DbOutcomes :
        LET exc == EngineRaises(outcome) IN
        req' = [req EXCEPT ![w].pc = "done",
                           ![w].exc = exc,
                           ![w].sessions = ConnectAndSelect(outcome),
                           ![w].status = HealthcheckStatus(exc)]
    /\ UNCHANGED <<table, now, nreq, posted, updated, ver>>

\* ----------------------------------------------------------- BlogPost

\* The columns an UPDATE can set (id and created_at are set by their column
\* defaults, at INSERT only).
Columns == {"title", "description"}

\* Mutant of BlogPost: the constructor's two keyword arguments crossed.
BlogPostCrossed(title, description) ==
    [id |-> <<"None", 0>>, title |-> description, description |-> title,
     created_at |-> 0, loaded |-> <<>>]

\* BlogPost(title=..., description=...): a new object, not yet in the table;
\* id and created_at are filled in by the column defaults when it is inserted.
BlogPost(title, description) ==
    [id |-> <<"None", 0>>, title |-> title, description |-> description,
     created_at |-> 0, loaded |-> <<>>]

\* The object a query loads for the row with primary key u; it remembers the
\* values it was loaded with.
Loaded(tbl, u) ==
    [id |-> <<"UUID", u>>, title |-> tbl[u].title, description |-> tbl[u].description,
     created_at |-> tbl[u].created_at,
     loaded |-> <<[title |-> tbl[u].title, description |-> tbl[u].description]>>]

\* BlogPost.to_dict
to_dict(self) ==
    [id |-> str(self.id), title |-> self.title, description |-> self.description,
     created_at |-> self.created_at]

\* Mutant of Changed: every column is written, changed or not.
ChangedAll(self) == Columns

\* The columns of a loaded object whose value differs from the loaded one:
\* the unit of work writes these and no others.
Changed(self) == {c \in Columns : self[c] # self.loaded[1][c]}

\* Mutant of Flush: the UPDATE has no WHERE clause and sets the changed
\* columns in every row.
FlushEveryRow(self, tbl, newid, clock) ==
    IF self.loaded = <<>>
    THEN [sql |-> TRUE, ok |-> newid \notin DOMAIN tbl,
          table |-> (newid :> [title |-> self.title, description |-> self.description,
                               created_at |-> clock]) @@ tbl]
    ELSE IF Changed(self) = {}
    THEN [sql |-> FALSE, ok |-> TRUE, table |-> tbl]
    ELSE [sql |-> TRUE, ok |-> TRUE,
          table |-> [v \in DOMAIN tbl |->
                        [c \in DOMAIN tbl[v] |->
                            IF c \in Changed(self) THEN self[c] ELSE tbl[v][c]]]]

\* The statement session.add(self); session.commit() flushes: an INSERT for
\* a new object, and for a loaded one an UPDATE of its changed columns WHERE
\* id = self.id (no statement when nothing changed; an error when the UPDATE
\* matches no row).
Flush(self, tbl, newid, clock) ==
    IF self.loaded = <<>>
    THEN [sql |-> TRUE, ok |-> newid \notin DOMAIN tbl,
          table |-> (newid :> [title |-> self.title, description |-> self.description,
                               created_at |-> clock]) @@ tbl]
    ELSE IF Changed(self) = {}
    THEN [sql |-> FALSE, ok |-> TRUE, table |-> tbl]
    ELSE IF self.id[2] \notin DOMAIN tbl
    THEN [sql |-> TRUE, ok |-> FALSE, table |-> tbl]
    ELSE [sql |-> TRUE, ok |-> TRUE,
          table |-> [tbl EXCEPT ![self.id[2]] =
                        [c \in DOMAIN @ |-> IF c \in Changed(self) THEN self[c] ELSE @[c]]]]

\* The session calls of save on each path of its try/except/finally.
SaveEvents(committed) ==
    IF committed
    THEN <<"Session()", "add", "commit", "close">>
    ELSE <<"Session()", "add", "commit!", "rollback", "close">>

\* Mutant of save: the flushed statement is not undone when the commit fails.
saveWithoutRollback(self, tbl, outcome, newid, clock) ==
    LET f == Flush(self, tbl, newid, clock)
        committed == f.ok /\ (outcome = "ok" \/ ~f.sql)
    IN  [raised |-> ~committed,
         table |-> f.table,
         events |-> SaveEvents(committed)]

\* BlogPost.save: the table after it, whether it raised, and its session calls.
\* The commit fails when the database does (it is only asked when a statement
\* is flushed) or when the flushed statement fails.
save(self, tbl, outcome, newid, clock) ==
    LET f == Flush(self, tbl, newid, clock)
        committed == f.ok /\ (outcome = "ok" \/ ~f.sql)
    IN  [raised |-> ~committed,
         table |-> IF committed THEN f.table ELSE tbl,
         events |-> SaveEvents(committed)]

\* The session calls of delete on each path of its try/except/finally.
DeleteEvents(committed) ==
    IF committed
    THEN <<"Session()", "delete", "commit", "close">>
    ELSE <<"Session()", "delete", "commit!", "rollback", "close">>

\* BlogPost.delete
delete(self, tbl, outcome) ==
    LET committed == outcome = "ok"
    IN  [raised |-> ~committed,
         table |-> IF committed
                   THEN [u \in DOMAIN tbl \ {self.id[2]} |-> tbl[u]]
                   ELSE tbl,
         events |-> DeleteEvents(committed)]

\* ----------------------------------------------------------- handlers

\* session = Session(); session.query(BlogPost).get(item_id); session.close()
\* The query raises when the database fails and when the key is not a UUID
\* (the id column is a UUID column); the close is skipped when it raises.
query_get(tbl, item_id, outcome) ==
    IF outcome # "ok" \/ item_id[1] # "UUID"
    THEN [raised |-> TRUE, item |-> <<>>, events |-> <<"Session()", "query!">>]
    ELSE [raised |-> FALSE,
          item |-> IF item_id[2] \in DOMAIN tbl THEN <<Loaded(tbl, item_id[2])>> ELSE <<>>,
          events |-> <<"Session()", "query", "close">>]

\* The orders in which a query without ORDER BY can return the rows of S.
Orders(S) ==
    {f \in [1..Cardinality(S) -> S] : \A i, j \in DOMAIN f : i # j => f[i] # f[j]}

\* session = Session(); session.query(BlogPost).all(); session.close()
query_all(tbl, order, outcome) ==
    IF outcome # "ok"
    THEN [raised |-> TRUE, items |-> <<>>, events |-> <<"Session()", "query!">>]
    ELSE [raised |-> FALSE,
          items |-> [i \in DOMAIN order |-> Loaded(tbl, order[i])],
          events |-> <<"Session()", "query", "close">>]

\* Mutant of Subscript: body.get(key), None for a missing key and no KeyError.
SubscriptOrNone(body, key) ==
    IF key \in DOMAIN body
    THEN [raised |-> FALSE, value |-> body[key]]
    ELSE [raised |-> FALSE, value |-> None]

\* body[key]: the value, or a KeyError.
Subscript(body, key) ==
    IF key \in DOMAIN body
    THEN [raised |-> FALSE, value |-> body[key]]
    ELSE [raised |-> TRUE, value |-> None]

\* uuid4(): a UUID no row has; the UUIDs are numbered in the order uuid4
\* returns them.
NextUUID(tbl) == CHOOSE u \in UUIDs \ DOMAIN tbl : \A v \in UUIDs \ DOMAIN tbl : u <= v

get_items(w) ==
    /\ req[w].pc = "get_items"
    /\ \E outcome \in DbOutcomes, order \in Orders(DOMAIN table) :
        LET q == query_all(table, order, outcome) IN
        req' = [req EXCEPT ![w].pc = "done",
                           ![w].sessions = q.events,
                           ![w].json = [i \in DOMAIN q.items |-> to_dict(q.items[i])],
                           ![w].status = IF q.raised THEN 500 ELSE 200]
    /\ UNCHANGED <<table, now, nreq, posted, updated, ver>>

get_item(w) ==
    /\ req[w].pc = "get_item"
    /\ \E outcome \in DbOutcomes :
        LET q == query_get(table, req[w].item_id, outcome) IN
        req' = [req EXCEPT ![w].pc = "done",
                           ![w].sessions = q.events,
                           ![w].item = q.item,
                           ![w].json = IF q.item = <<>> THEN <<>> ELSE <<to_dict(q.item[1])>>,
                           ![w].status = IF q.raised THEN 500
                                         ELSE IF q.item = <<>> THEN 404 ELSE 200]
    /\ UNCHANGED <<table, now, nreq, posted, updated, ver>>

create_item(w) ==
    /\ req[w].pc = "create_item"
    /\ \E outcome \in DbOutcomes :
        LET uuid4 == NextUUID(table)
            name == Subscript(req[w].body, "name")
            description == Subscript(req[w].body, "description")
            item == BlogPost(name.value, description.value)
            s == save(item, table, outcome, uuid4, now)
        IN  IF name.raised \/ description.raised
            THEN /\ req' = [req EXCEPT ![w].pc = "done", ![w].status = 500]
                 /\ UNCHANGED <<table, now, posted, ver>>
            ELSE /\ req' = [req EXCEPT ![w].pc = "done",
                                       ![w].sessions = s.events,
                                       ![w].status = IF s.raised THEN 500 ELSE 201]
                 /\ table' = s.table
                 /\ now' = IF s.raised THEN now ELSE now + 1
                 /\ posted' = IF s.raised THEN posted
                              ELSE (uuid4 :> req[w].body) @@ posted
                 /\ ver' = IF s.raised THEN ver ELSE [ver EXCEPT ![uuid4] = 1]
    /\ UNCHANGED <<nreq, updated>>

\* update_item up to its "if item is None": the lookup, in a session of its own.
update_item(w) ==
    /\ req[w].pc = "update_item"
    /\ \E outcome \in DbOutcomes :
        LET q == query_get(table, req[w].item_id, outcome) IN
        req' = [req EXCEPT ![w].pc = IF q.raised \/ q.item = <<>> THEN "done"
                                     ELSE "update_item_save",
                           ![w].sessions = q.events,
                           ![w].item = q.item,
                           ![w].rver = IF q.item = <<>> THEN 0 ELSE ver[req[w].item_id[2]],
                           ![w].status = IF q.raised THEN 500
                                         ELSE IF q.item = <<>> THEN 404 ELSE 0]
    /\ UNCHANGED <<table, now, nreq, posted, updated, ver>>

\* update_item from "item.title = ..." on: the two assignments and the save,
\* in a second session.
update_item_save(w) ==
    /\ req[w].pc = "update_item_save"
    /\ \E outcome \in DbOutcomes :
        LET u == req[w].item_id[2]
            name == Subscript(req[w].body, "name")
            description == Subscript(req[w].body, "description")
            item1 == [req[w].item[1] EXCEPT !.title = name.value]
            item2 == [item1 EXCEPT !.description = description.value]
            s == save(item2, table, outcome, u, now)
        IN  IF name.raised
            THEN /\ req' = [req EXCEPT ![w].pc = "done", ![w].status = 500]
                 /\ UNCHANGED <<table, updated, ver>>
            ELSE IF description.raised
            THEN /\ req' = [req EXCEPT ![w].pc = "done", ![w].status = 500,
                                       ![w].item = <<item1>>]
                 /\ UNCHANGED <<table, updated, ver>>
            ELSE /\ req' = [req EXCEPT ![w].pc = "done",
                                       ![w].item = <<item2>>,
                                       ![w].sessions = @ \o s.events,
                                       ![w].cver = IF s.raised THEN 0 ELSE ver[u] + 1,
                                       ![w].status = IF s.raised THEN 500 ELSE 200]
                 /\ table' = s.table
                 /\ updated' = IF s.raised THEN updated ELSE updated \cup {u}
                 /\ ver' = IF s.raised THEN ver ELSE [ver EXCEPT ![u] = @ + 1]
    /\ UNCHANGED <<now, nreq, posted>>

delete_item(w) ==
    /\ req[w].pc = "delete_item"
    /\ \E outcome \in DbOutcomes, outcome2 \in DbOutcomes :
        LET q == query_get(table, req[w].item_id, outcome) IN
        IF q.raised \/ q.item = <<>>
        THEN /\ req' = [req EXCEPT ![w].pc = "done",
                                   ![w].sessions = q.events,
                                   ![w].status = IF q.raised THEN 500 ELSE 404]
             /\ UNCHANGED table
        ELSE LET d == delete(q.item[1], table, outcome2) IN
             /\ req' = [req EXCEPT ![w].pc = "done",
                                   ![w].item = q.item,
                                   ![w].sessions = q.events \o d.events,
                                   ![w].status = IF d.raised THEN 500 ELSE 200]
             /\ table' = d.table
    /\ UNCHANGED <<now, nreq, posted, updated, ver>>

Next ==
    \E w \in Workers :
        \/ Receive(w)
        \/ perform_healthcheck(w)
        \/ get_items(w)
        \/ get_item(w)
        \/ create_item(w)
        \/ update_item(w)
        \/ update_item_save(w)
        \/ delete_item(w)

Spec == Init /\ [][Next]_vars

\* ------------------------------------------------------------- claims

\* Sessions a request has opened and not closed.
OpenSessions(log) ==
    Cardinality({i \in DOMAIN log : log[i] = "Session()"})
        - Cardinality({i \in DOMAIN log : log[i] = "close"})

\* The request's log holds the event e.
Logged(log, e) == \E i \in DOMAIN log : log[i] = e

\* Worker w has answered a request with the given method on /items/<segment>.
AnsweredOnItem(w, method) ==
    /\ req[w].pc = "done"
    /\ req[w].method = method
    /\ Len(req[w].path) = 2

\* Worker w takes the step that answers its request.
Answers(w) == req[w].pc \notin {"idle", "done"} /\ req'[w].pc = "done"

\* The request of worker w is a create or an update whose body lacks a field.
LacksField(w) ==
    /\ req[w].method \in {"POST", "PUT"}
    /\ DOMAIN req[w].body # {"name", "description"}

\* C1: a DELETE /items/{id} carrying the UUID of a post created through POST
\* /items is answered 200 and has removed the row.
C1_DeleteOfCreatedPost ==
    \A w \in Workers :
        (/\ AnsweredOnItem(w, "DELETE")
         /\ req[w].path[2][1] = "uuidstr"
         /\ req[w].path[2][2] \in DOMAIN posted)
        => /\ req[w].status = 200
           /\ req[w].path[2][2] \notin DOMAIN table

\* C2: a GET by id of a post that was created from {name: A, description: B}
\* and not updated since answers (when its query does not fail) 200 with
\* title A and description B, and GET /items then holds that row exactly
\* once, with the same fields.
C2_RoundTrip ==
    [][\A w \in Workers :
        (Answers(w) /\ req'[w].status # 500) =>
            /\ req[w].pc = "get_item" =>
                 \A u \in DOMAIN posted \ updated :
                     req[w].item_id = <<"UUID", u>> =>
                         /\ req'[w].status = 200
                         /\ req'[w].json[1].id = req[w].path[2]
                         /\ req'[w].json[1].title = posted[u].name
                         /\ req'[w].json[1].description = posted[u].description
            /\ req[w].pc = "get_items" =>
                 \A u \in DOMAIN posted \ updated :
                     /\ Cardinality({i \in DOMAIN req'[w].json :
                                        req'[w].json[i].id = <<"uuidstr", u>>}) = 1
                     /\ \A i \in DOMAIN req'[w].json :
                            req'[w].json[i].id = <<"uuidstr", u>> =>
                                /\ req'[w].json[i].title = posted[u].name
                                /\ req'[w].json[i].description = posted[u].description
      ]_vars

\* C2 witness: a GET by id has answered 200 with the payload of a created,
\* never updated post whose name and description differ.
C2_Witness ==
    \E w \in Workers :
        /\ AnsweredOnItem(w, "GET")
        /\ req[w].status = 200
        /\ req[w].item_id[2] \in DOMAIN posted \ updated
        /\ req[w].json[1].title = "A"
        /\ req[w].json[1].description = "B"

\* C3: the save of an update that answers 200 adds and removes no row, leaves
\* every other row as it was, keeps the row's key and created_at, sets title
\* and description to the payload's values or leaves them, and leaves title
\* as it was when the payload repeats the stored title.
C3_UpdateFrame ==
    [][\A w \in Workers :
        (req[w].pc = "update_item_save" /\ Answers(w) /\ req'[w].status = 200) =>
            LET u == req[w].item_id[2] IN
            /\ DOMAIN table' = DOMAIN table
            /\ u \in DOMAIN table
            /\ \A v \in DOMAIN table \ {u} : table'[v] = table[v]
            /\ table'[u].created_at = table[u].created_at
            /\ table'[u].title \in {table[u].title, req[w].body.name}
            /\ table'[u].description \in {table[u].description, req[w].body.description}
            /\ req[w].body.name = table[u].title => table'[u].title = table[u].title
      ]_vars

\* C3 witness: with two rows in the table, an update whose payload repeats the
\* title it read and changes the description has answered 200 and its save is
\* the row's latest.
C3_Witness ==
    \E w \in Workers :
        /\ AnsweredOnItem(w, "PUT")
        /\ req[w].status = 200
        /\ Cardinality(DOMAIN table) = 2
        /\ req[w].cver = ver[req[w].item_id[2]]
        /\ req[w].body.name = req[w].item[1].loaded[1].title
        /\ req[w].body.description # req[w].item[1].loaded[1].description
        /\ table[req[w].item_id[2]].description = req[w].body.description

\* C4: a healthcheck answers 200 when SELECT 1 succeeded, 503 when the
\* connection to the database failed, and 500 only for other errors.
C4_HealthcheckStatus ==
    \A w \in Workers :
        (req[w].pc = "done" /\ req[w].path = <<"healthcheck">>) =>
            /\ Logged(req[w].sessions, "execute") => req[w].status = 200
            /\ Logged(req[w].sessions, "engine.connect!") => req[w].status = 503
            /\ req[w].status = 500 => Logged(req[w].sessions, "execute!")

\* C5: a GET, PUT or DELETE whose path id is not a UUID opens no session,
\* issues no query and is not answered 500.
C5_MalformedIdNeverReachesDb ==
    \A w \in Workers :
        (/\ req[w].pc = "done"
         /\ req[w].method \in {"GET", "PUT", "DELETE"}
         /\ Len(req[w].path) = 2
         /\ req[w].path[2][1] # "uuidstr")
        => /\ req[w].sessions = <<>>
           /\ req[w].status # 500

\* C6: a GET, PUT or DELETE on a UUID that has no row is answered 404 (when
\* its query does not fail).
C6_MissingRowIs404 ==
    \A w \in Workers :
        (/\ req[w].pc = "done"
         /\ req[w].method \in {"GET", "PUT", "DELETE"}
         /\ Len(req[w].path) = 2
         /\ req[w].path[2][1] = "uuidstr"
         /\ req[w].path[2][2] \notin DOMAIN table
         /\ ~Logged(req[w].sessions, "query!"))
        => req[w].status = 404

\* C7 as claimed: a create or update whose body lacks a field is answered with
\* a 4xx and leaves the table unchanged.
C7_MissingFieldIs4xx ==
    [][\A w \in Workers :
        (Answers(w) /\ LacksField(w)) =>
            /\ req'[w].status \in 400..499
            /\ table' = table
      ]_vars

\* C7 as amended: a create or update whose body lacks a field leaves the table
\* unchanged; the create is answered 500; the update is answered 404 when its
\* lookup finds no row with the id, and 500 otherwise.
C7_MissingFieldIs500 ==
    [][\A w \in Workers :
        (Answers(w) /\ LacksField(w)) =>
            /\ table' = table
            /\ req[w].method = "POST" => req'[w].status = 500
            /\ req[w].method = "PUT" =>
                 req'[w].status =
                    IF /\ req[w].pc = "update_item"
                       /\ req[w].item_id[2] \notin DOMAIN table
                       /\ ~Logged(req'[w].sessions, "query!")
                    THEN 404 ELSE 500
      ]_vars

\* C7 witness: an update whose body lacks "description" found its row, set the
\* title on the loaded object, was answered 500, and the row's title is not
\* the payload's.
C7_Witness ==
    \E w \in Workers :
        /\ AnsweredOnItem(w, "PUT")
        /\ DOMAIN req[w].body = {"name"}
        /\ req[w].status = 500
        /\ req[w].item # <<>>
        /\ req[w].item[1].title = req[w].body.name
        /\ req[w].item_id[2] \in DOMAIN table
        /\ table[req[w].item_id[2]].title # req[w].body.name

\* C8: no request has been answered while a session it opened is still open.
C8_SessionsClosed ==
    \A w \in Workers :
        req[w].pc = "done" => OpenSessions(req[w].sessions) = 0

\* C9: when the commit of save or delete fails, the request is answered 500,
\* the table is what it was, and the session was rolled back right after the
\* failed commit and closed after that, as its last call.
C9_FailedCommitRollsBack ==
    [][\A w \in Workers :
        (Answers(w) /\ Logged(req'[w].sessions, "commit!")) =>
            LET log == req'[w].sessions IN
            /\ req'[w].status = 500
            /\ table' = table
            /\ OpenSessions(log) = 0
            /\ Len(log) >= 3
            /\ log[Len(log) - 2] = "commit!"
            /\ log[Len(log) - 1] = "rollback"
            /\ log[Len(log)] = "close"
      ]_vars

\* C9 witness: an update found its row, its save's commit failed, and it was
\* answered 500.
C9_Witness ==
    \E w \in Workers :
        /\ AnsweredOnItem(w, "PUT")
        /\ Logged(req[w].sessions, "commit!")
        /\ req[w].item # <<>>
        /\ req[w].status = 500

\* Two updates of the same row, both answered 200, that read the same version
\* of the row; first's save committed right after that version and last's
\* right after first's, and no save of the row has committed since.
ConcurrentUpdates(first, last) ==
    /\ first # last
    /\ AnsweredOnItem(first, "PUT") /\ req[first].status = 200
    /\ AnsweredOnItem(last, "PUT") /\ req[last].status = 200
    /\ req[first].item_id = req[last].item_id
    /\ req[first].rver = req[last].rver
    /\ req[first].cver = req[first].rver + 1
    /\ req[last].cver = req[first].cver + 1
    /\ ver[req[last].item_id[2]] = req[last].cver

\* The body key that holds a column's value.
BodyKey(c) == IF c = "title" THEN "name" ELSE "description"

\* C10 as claimed: after two concurrent updates of a row, the row's title and
\* description are both those of the payload whose save committed last.
C10_LastWriteWins ==
    \A first, last \in Workers :
        ConcurrentUpdates(first, last) =>
            LET row == table[req[last].item_id[2]] IN
            /\ row.title = req[last].body.name
            /\ row.description = req[last].body.description

\* C10 as amended: after two concurrent updates of a row, each of title and
\* description holds the value of the payload whose save committed last when
\* that value differs from the one that request had read, and the value of the
\* other payload when it does not.
C10_LastWriteWinsPerColumn ==
    \A first, last \in Workers :
        ConcurrentUpdates(first, last) =>
            LET row == table[req[last].item_id[2]] IN
            \A c \in Columns :
                row[c] = IF req[last].body[BodyKey(c)] # req[last].item[1].loaded[1][c]
                         THEN req[last].body[BodyKey(c)]
                         ELSE req[first].body[BodyKey(c)]

\* C10 witness: after two concurrent updates, the row is neither payload.
C10_Witness ==
    \E first, last \in Workers :
        /\ ConcurrentUpdates(first, last)
        /\ LET row == table[req[last].item_id[2]] IN
           /\ [name |-> row.title, description |-> row.description] # req[first].body
           /\ [name |-> row.title, description |-> row.description] # req[last].body

====
